---- MODULE Spec2Model ----
(***************************************************************************)
(* The "decks" service (services/decks-service/src/decks-service.ts):      *)
(* the startup seeding workflow scheduled by afterConnected, the seedDb    *)
(* routine, the health action and the three entity lifecycle hooks, run    *)
(* by several service instances against one shared deck store.  The       *)
(* database mixin, the broker and the "cards" service are collaborators:  *)
(* they are modelled by their contract as the decks service uses it.       *)
(***************************************************************************)
EXTENDS Naturals, Integers, Sequences, FiniteSets, TLC

\* ---------------------------------------------------------------- bounds

\* Longest card sequence cards.find returns in SeedSpec.
MaxCards == 3
\* Requests (create / update / remove) external callers issue in one run.
MaxRequests == 2

\* The service instances started against the same deck store.
Nodes == {"n1", "n2"}

CardIds == 1..MaxCards
\* "none" stands for a card record without a cardType field.
CardTypes == {"black", "white", "none"}
Cards == [id : CardIds, cardType : CardTypes]

\* Names external callers give the decks they create or rename.
RequestNames == {"Custom"}
\* What the hosting runtime's $node.health answers.
NodeHealth == {"healthy"}

\* All sequences over S of length at most n without a repeated card id.
RECURSIVE DistinctSeqs(_, _)
DistinctSeqs(S, n) ==
  IF n = 0 THEN {<<>>}
  ELSE LET shorter == DistinctSeqs(S, n - 1)
       IN shorter \cup
          { Append(s, c) : s \in {t \in shorter : Len(t) = n - 1},
                           c \in S }
CardSeqs(n) ==
  { s \in DistinctSeqs(Cards, n) :
      \A i, j \in 1..Len(s) : i # j => s[i].id # s[j].id }
\* The card sets of Spec and FairSpec: none, and a black, a white and a
\* second black card.
SampleCardSeqs ==
  { <<>>,
    << [id |-> 1, cardType |-> "black"], [id |-> 2, cardType |-> "white"],
       [id |-> 3, cardType |-> "black"] >> }

VARIABLES
  cardsDb,     \* the records the "cards" service holds, in find order
  cardsUp,     \* the "cards" service is discoverable
  cacher,      \* the broker is configured with a cacher
  store,       \* the deck collection (set of Deck records)
  nextId,      \* next id the persistence layer assigns
  mutations,   \* history: completed adapter mutations <<kind, record>>
  events,      \* history: events published through ctx.emit
  pc,          \* per instance: position in the startup workflow
  countRead,   \* per instance: the value adapter.count() returned (-1: not read)
  fetched,     \* per instance: seedDb's local _cards
  seedArg,     \* per instance: sequence of params seedDb passed to decks.create
  seeded,      \* per instance: sequence of records its decks.create calls returned
  trace,       \* per instance: history of the workflow's steps, in order
  lastHealth,  \* the last reply of the health action
  requests     \* number of create / update / remove requests served

vars == <<cardsDb, cardsUp, cacher, store, nextId, mutations, events, pc,
          countRead, fetched, seedArg, seeded, trace, lastHealth, requests>>

\* ------------------------------------------------------------ the service

\* this.name, set by parseServiceSchema({ name: 'decks', ... }).
ServiceName == "decks"

\* entityCreated(json, ctx): ctx.emit(`${this.name}.created`, json)
entityCreated(json) == [name |-> ServiceName \o ".created", payload |-> json]

\* Mutant: the update hook emits the created event (a copied hook body).
entityUpdated_AsCreated(json) ==
  [name |-> ServiceName \o ".created", payload |-> json]

\* entityUpdated(json, ctx): ctx.emit(`${this.name}.updated`, json)
entityUpdated(json) == [name |-> ServiceName \o ".updated", payload |-> json]

\* entityRemoved(json, ctx): ctx.emit(`${this.name}.removed`, json)
entityRemoved(json) == [name |-> ServiceName \o ".removed", payload |-> json]

\* Mutant: only cards typed 'white' are pushed on whiteCards; a card of any
\* other non-black type is dropped.
Reducer_DropsUntyped(acc, card) ==
  IF card.cardType = "black"
  THEN [acc EXCEPT !.blackCards = Append(@, card.id)]
  ELSE IF card.cardType = "white"
       THEN [acc EXCEPT !.whiteCards = Append(@, card.id)]
       ELSE acc

\* The reducer of seedDb: push card._id on blackCards when cardType is
\* 'black', on whiteCards otherwise.
Reducer(acc, card) ==
  IF card.cardType = "black"
  THEN [acc EXCEPT !.blackCards = Append(@, card.id)]
  ELSE [acc EXCEPT !.whiteCards = Append(@, card.id)]

\* _cards.reduce(reducer, { whiteCards: [], blackCards: [] })
RECURSIVE Reduce(_, _)
Reduce(cards, acc) ==
  IF cards = <<>> THEN acc
  ELSE Reduce(Tail(cards), Reducer(acc, Head(cards)))

\* The params seedDb passes to `${this.name}.create`.
SeedParams(cards) ==
  LET acc == Reduce(cards, [whiteCards |-> <<>>, blackCards |-> <<>>])
  IN [name |-> "Base cards",
      whiteCards |-> acc.whiteCards,
      blackCards |-> acc.blackCards]

\* The record the persistence layer stores for validated params.
NewRecord(params) ==
  [id |-> nextId, name |-> params.name,
   whiteCards |-> params.whiteCards, blackCards |-> params.blackCards]

\* The create action of the database mixin: insert, then entityCreated.
CreateEntity(rec) ==
  /\ store' = store \cup {rec}
  /\ nextId' = nextId + 1
  /\ mutations' = Append(mutations, <<"create", rec>>)
  /\ events' = Append(events, entityCreated(rec))

\* The update action of the database mixin: update, then entityUpdated.
UpdateEntity(old, rec) ==
  /\ store' = (store \ {old}) \cup {rec}
  /\ mutations' = Append(mutations, <<"update", rec>>)
  /\ events' = Append(events, entityUpdated(rec))

\* The remove action of the database mixin: remove, then entityRemoved.
RemoveEntity(old) ==
  /\ store' = store \ {old}
  /\ mutations' = Append(mutations, <<"remove", old>>)
  /\ events' = Append(events, entityRemoved(old))

Log(n, steps) == trace' = [trace EXCEPT ![n] = @ \o steps]

\* ---------------------------------------------------- the startup workflow

\* afterConnected: setTimeout(async () => {...}, 5000) and return.
AfterConnected(n) ==
  /\ pc[n] = "init"
  /\ pc' = [pc EXCEPT ![n] = "delay"]
  /\ UNCHANGED <<cardsDb, cardsUp, cacher, store, nextId, mutations, events,
                 countRead, fetched, seedArg, seeded, trace, lastHealth, requests>>

\* Mutant: the callback does not wait for the "cards" service.
TimerFires_SkipsWait(n) ==
  /\ pc[n] = "delay"
  /\ pc' = [pc EXCEPT ![n] = "count"]
  /\ trace' = [trace EXCEPT ![n] = @ \o <<"delay">>]
  /\ UNCHANGED <<cardsDb, cardsUp, cacher, store, nextId, mutations, events,
                 countRead, fetched, seedArg, seeded, lastHealth, requests>>

\* The 5000 ms timer fires and the async callback starts.
TimerFires(n) ==
  /\ pc[n] = "delay"
  /\ pc' = [pc EXCEPT ![n] = "wait"]
  /\ Log(n, <<"delay">>)
  /\ UNCHANGED <<cardsDb, cardsUp, cacher, store, nextId, mutations, events,
                 countRead, fetched, seedArg, seeded, lastHealth, requests>>

\* Mutant: waitForServices resolves whether or not "cards" is there.
WaitForServices_NoWait(n) ==
  /\ pc[n] = "wait"
  /\ pc' = [pc EXCEPT ![n] = "count"]
  /\ trace' = [trace EXCEPT ![n] = @ \o <<"waitForServices">>]
  /\ UNCHANGED <<cardsDb, cardsUp, cacher, store, nextId, mutations, events,
                 countRead, fetched, seedArg, seeded, lastHealth, requests>>

\* await this.broker.waitForServices('cards')
WaitForServices(n) ==
  /\ pc[n] = "wait"
  /\ cardsUp
  /\ pc' = [pc EXCEPT ![n] = "count"]
  /\ Log(n, <<"waitForServices">>)
  /\ UNCHANGED <<cardsDb, cardsUp, cacher, store, nextId, mutations, events,
                 countRead, fetched, seedArg, seeded, lastHealth, requests>>

\* Mutant: the emptiness test is inverted (count !== 0).
Count_Inverted(n) ==
  /\ pc[n] = "count"
  /\ countRead' = [countRead EXCEPT ![n] = Cardinality(store)]
  /\ pc' = [pc EXCEPT ![n] = IF Cardinality(store) # 0 THEN "seed"
                               ELSE "broadcast"]
  /\ trace' = [trace EXCEPT ![n] = @ \o <<"count">>]
  /\ UNCHANGED <<cardsDb, cardsUp, cacher, store, nextId, mutations, events,
                 fetched, seedArg, seeded, lastHealth, requests>>

\* Mutant: a non-empty store ends the callback (if (count !== 0) return).
Count_ReturnsEarly(n) ==
  /\ pc[n] = "count"
  /\ countRead' = [countRead EXCEPT ![n] = Cardinality(store)]
  /\ pc' = [pc EXCEPT ![n] = IF Cardinality(store) = 0 THEN "seed"
                               ELSE "done"]
  /\ trace' = [trace EXCEPT ![n] = @ \o <<"count">>]
  /\ UNCHANGED <<cardsDb, cardsUp, cacher, store, nextId, mutations, events,
                 fetched, seedArg, seeded, lastHealth, requests>>

\* const count = await this.adapter.count(); if (count === 0) ...
Count(n) ==
  /\ pc[n] = "count"
  /\ countRead' = [countRead EXCEPT ![n] = Cardinality(store)]
  /\ pc' = [pc EXCEPT ![n] = IF Cardinality(store) = 0 THEN "seed"
                               ELSE "broadcast"]
  /\ Log(n, <<"count">>)
  /\ UNCHANGED <<cardsDb, cardsUp, cacher, store, nextId, mutations, events,
                 fetched, seedArg, seeded, lastHealth, requests>>

\* Mutant: seedDb returns without creating when there are no cards.
SeedFind_SkipsEmpty(n) ==
  /\ pc[n] = "seed"
  /\ fetched' = [fetched EXCEPT ![n] = cardsDb]
  /\ pc' = [pc EXCEPT ![n] = IF cardsDb = <<>> THEN "broadcast" ELSE "create"]
  /\ trace' = [trace EXCEPT ![n] = @ \o <<"cards.find">>]
  /\ UNCHANGED <<cardsDb, cardsUp, cacher, store, nextId, mutations, events,
                 countRead, seedArg, seeded, lastHealth, requests>>

\* seedDb: const _cards = await this.broker.call('cards.find', { query: {} })
SeedFind(n) ==
  /\ pc[n] = "seed"
  /\ fetched' = [fetched EXCEPT ![n] = cardsDb]
  /\ pc' = [pc EXCEPT ![n] = "create"]
  /\ Log(n, <<"cards.find">>)
  /\ UNCHANGED <<cardsDb, cardsUp, cacher, store, nextId, mutations, events,
                 countRead, seedArg, seeded, lastHealth, requests>>

\* Mutant: the rejection is caught and the callback goes on to the broadcast.
SeedFindFails_Caught(n) ==
  /\ pc[n] = "seed"
  /\ pc' = [pc EXCEPT ![n] = "broadcast"]
  /\ trace' = [trace EXCEPT ![n] = @ \o <<"cards.find", "rejected">>]
  /\ UNCHANGED <<cardsDb, cardsUp, cacher, store, nextId, mutations, events,
                 countRead, fetched, seedArg, seeded, lastHealth, requests>>

\* The cards.find call rejects: nothing catches it, the async callback ends.
SeedFindFails(n) ==
  /\ pc[n] = "seed"
  /\ pc' = [pc EXCEPT ![n] = "failed"]
  /\ Log(n, <<"cards.find", "rejected">>)
  /\ UNCHANGED <<cardsDb, cardsUp, cacher, store, nextId, mutations, events,
                 countRead, fetched, seedArg, seeded, lastHealth, requests>>

\* Mutant: seedDb reuses a "Base cards" deck the store already holds.
SeedCreate_Idempotent(n) ==
  /\ pc[n] = "create"
  /\ LET params == SeedParams(fetched[n])
         held == { d \in store : d.name = "Base cards" }
     IN /\ seedArg' = [seedArg EXCEPT ![n] = Append(@, params)]
        /\ IF held = {}
           THEN /\ seeded' = [seeded EXCEPT ![n] =
                                Append(@, NewRecord(params))]
                /\ CreateEntity(NewRecord(params))
           ELSE /\ seeded' = [seeded EXCEPT ![n] =
                                Append(@, CHOOSE d \in held : TRUE)]
                /\ UNCHANGED <<store, nextId, mutations, events>>
  /\ pc' = [pc EXCEPT ![n] = "broadcast"]
  /\ trace' = [trace EXCEPT ![n] = @ \o <<"decks.create">>]
  /\ UNCHANGED <<cardsDb, cardsUp, cacher, countRead, fetched, lastHealth,
                 requests>>

\* seedDb: reduce, then this.broker.call(`${this.name}.create`, {...}); the
\* create action inserts the record and runs the entityCreated hook.
SeedCreate(n) ==
  /\ pc[n] = "create"
  /\ LET params == SeedParams(fetched[n])
         rec == NewRecord(params)
     IN /\ seedArg' = [seedArg EXCEPT ![n] = Append(@, params)]
        /\ seeded' = [seeded EXCEPT ![n] = Append(@, rec)]
        /\ CreateEntity(rec)
  /\ pc' = [pc EXCEPT ![n] = "broadcast"]
  /\ Log(n, <<"decks.create">>)
  /\ UNCHANGED <<cardsDb, cardsUp, cacher, countRead, fetched, lastHealth, requests>>

\* The decks.create call rejects: nothing catches it, the async callback ends.
SeedCreateFails(n) ==
  /\ pc[n] = "create"
  /\ seedArg' = [seedArg EXCEPT ![n] = Append(@, SeedParams(fetched[n]))]
  /\ pc' = [pc EXCEPT ![n] = "failed"]
  /\ Log(n, <<"decks.create", "rejected">>)
  /\ UNCHANGED <<cardsDb, cardsUp, cacher, store, nextId, mutations, events,
                 countRead, fetched, seeded, lastHealth, requests>>

\* await this.broker.broadcast('cache.clean.decks')
Broadcast(n) ==
  /\ pc[n] = "broadcast"
  /\ pc' = [pc EXCEPT ![n] = "clean"]
  /\ Log(n, <<"cache.clean.decks">>)
  /\ UNCHANGED <<cardsDb, cardsUp, cacher, store, nextId, mutations, events,
                 countRead, fetched, seedArg, seeded, lastHealth, requests>>

\* Mutant: the callback is scheduled with setInterval and runs again.
Clean_Reschedules(n) ==
  /\ pc[n] = "clean"
  /\ pc' = [pc EXCEPT ![n] = "delay"]
  /\ trace' = [trace EXCEPT ![n] =
                 IF cacher THEN @ \o <<"cacher.clean">> ELSE @]
  /\ UNCHANGED <<cardsDb, cardsUp, cacher, store, nextId, mutations, events,
                 countRead, fetched, seedArg, seeded, lastHealth, requests>>

\* await this.broker.cacher?.clean()
Clean(n) ==
  /\ pc[n] = "clean"
  /\ pc' = [pc EXCEPT ![n] = "done"]
  /\ IF cacher THEN Log(n, <<"cacher.clean">>) ELSE UNCHANGED trace
  /\ UNCHANGED <<cardsDb, cardsUp, cacher, store, nextId, mutations, events,
                 countRead, fetched, seedArg, seeded, lastHealth, requests>>

Workflow(n) ==
  \/ AfterConnected(n)
  \/ TimerFires(n)
  \/ WaitForServices(n)
  \/ Count(n)
  \/ SeedFind(n)
  \/ SeedFindFails(n)
  \/ SeedCreate(n)
  \/ SeedCreateFails(n)
  \/ Broadcast(n)
  \/ Clean(n)

\* ------------------------------------------------------------ environment

\* The "cards" service registers with the mesh.
CardsServiceUp ==
  /\ ~cardsUp
  /\ cardsUp' = TRUE
  /\ UNCHANGED <<cardsDb, cacher, store, nextId, mutations, events, pc,
                 countRead, fetched, seedArg, seeded, trace, lastHealth, requests>>

\* A started instance serves requests: afterConnected has returned.
Serving(n) == pc[n] # "init"

\* health(ctx): return ctx.call('$node.health')
Health(n) ==
  /\ Serving(n)
  /\ \E h \in NodeHealth :
       /\ lastHealth # h
       /\ lastHealth' = h
  /\ UNCHANGED <<cardsDb, cardsUp, cacher, store, nextId, mutations, events,
                 pc, countRead, fetched, seedArg, seeded, trace, requests>>

\* decks.create from an external caller, then the entityCreated hook.
CreateRequest(n) ==
  /\ Serving(n)
  /\ requests < MaxRequests
  /\ requests' = requests + 1
  /\ \E nm \in RequestNames :
       CreateEntity(NewRecord([name |-> nm, whiteCards |-> <<>>,
                               blackCards |-> <<>>]))
  /\ UNCHANGED <<cardsDb, cardsUp, cacher, pc, countRead, fetched, seedArg,
                 seeded, trace, lastHealth>>

\* decks.update from an external caller, then the entityUpdated hook.
UpdateRequest(n) ==
  /\ Serving(n)
  /\ requests < MaxRequests
  /\ requests' = requests + 1
  /\ \E old \in store, nm \in RequestNames :
       UpdateEntity(old, [old EXCEPT !.name = nm])
  /\ UNCHANGED <<cardsDb, cardsUp, cacher, nextId, pc, countRead, fetched,
                 seedArg, seeded, trace, lastHealth>>

\* decks.remove from an external caller, then the entityRemoved hook.
RemoveRequest(n) ==
  /\ Serving(n)
  /\ requests < MaxRequests
  /\ requests' = requests + 1
  /\ \E old \in store : RemoveEntity(old)
  /\ UNCHANGED <<cardsDb, cardsUp, cacher, nextId, pc, countRead, fetched,
                 seedArg, seeded, trace, lastHealth>>

Requests(n) ==
  \/ Health(n)
  \/ CreateRequest(n)
  \/ UpdateRequest(n)
  \/ RemoveRequest(n)

\* -------------------------------------------------------- specifications

InitWith(cardSeqs) ==
  /\ cardsDb \in cardSeqs
  /\ cardsUp = FALSE
  /\ cacher \in BOOLEAN
  /\ store = {}
  /\ nextId = 1
  /\ mutations = <<>>
  /\ events = <<>>
  /\ pc = [n \in Nodes |-> "init"]
  /\ countRead = [n \in Nodes |-> -1]
  /\ fetched = [n \in Nodes |-> <<>>]
  /\ seedArg = [n \in Nodes |-> <<>>]
  /\ seeded = [n \in Nodes |-> <<>>]
  /\ trace = [n \in Nodes |-> <<>>]
  /\ lastHealth = "none"
  /\ requests = 0

Init == InitWith(SampleCardSeqs)

Next ==
  \/ CardsServiceUp
  \/ \E n \in Nodes : Workflow(n)
  \/ \E n \in Nodes : Requests(n)

Spec == Init /\ [][Next]_vars

\* The steps of the async callback the timer starts.
Callback(n) ==
  \/ TimerFires(n)
  \/ WaitForServices(n)
  \/ Count(n)
  \/ SeedFind(n)
  \/ SeedFindFails(n)
  \/ SeedCreate(n)
  \/ SeedCreateFails(n)
  \/ Broadcast(n)
  \/ Clean(n)

\* The event loop runs an expired timer and every continuation whose
\* awaited promise has settled; the "cards" service owes nothing.
FairSpec == Spec /\ \A n \in Nodes : WF_vars(Callback(n))

\* One instance alone, over every card sequence up to MaxCards.
SeedInit == InitWith(CardSeqs(MaxCards))

SeedNext ==
  \/ CardsServiceUp
  \/ Workflow("n1")

SeedSpec == SeedInit /\ [][SeedNext]_vars

\* ------------------------------------------------------------- properties

\* How often the workflow of instance n performed the step.
Occurs(n, step) ==
  Cardinality({ i \in 1..Len(trace[n]) : trace[n][i] = step })

\* The async callback of instance n has ended.
Terminated(n) == pc[n] \in {"done", "failed"}

\* The workflow of instance n has read the deck count.
HasCounted(n) == countRead[n] # -1

\* The ids of a card sequence, in order.
IdsOf(cards) == [i \in 1..Len(cards) |-> cards[i].id]

IsBlack(card) == card.cardType = "black"
IsNotBlack(card) == card.cardType # "black"

Range(s) == { s[i] : i \in 1..Len(s) }

\* s is an initial segment of t.
IsPrefix(s, t) == Len(s) <= Len(t) /\ \A i \in 1..Len(s) : s[i] = t[i]

\* C1 as stated: seeding happens iff the count read was zero; with a
\* non-zero count neither cards.find nor decks.create is called, and with a
\* zero count decks.create is called by the time the workflow has ended.
C1_AsStated ==
  \A n \in Nodes :
    /\ (HasCounted(n) /\ countRead[n] # 0) =>
         (Occurs(n, "cards.find") = 0 /\ Occurs(n, "decks.create") = 0)
    /\ (Terminated(n) /\ countRead[n] = 0) => Occurs(n, "decks.create") >= 1

\* C1 amended: with a non-zero count neither cards.find nor decks.create is
\* called; cards.find and decks.create are called only after a zero count;
\* with a zero count cards.find is called, and decks.create is called
\* unless that cards.find call was rejected.
C1_SeedingIffCountZero ==
  \A n \in Nodes :
    /\ (HasCounted(n) /\ countRead[n] # 0) =>
         (Occurs(n, "cards.find") = 0 /\ Occurs(n, "decks.create") = 0)
    /\ (Occurs(n, "cards.find") > 0 \/ Occurs(n, "decks.create") > 0) =>
         countRead[n] = 0
    /\ (countRead[n] = 0 /\ pc[n] # "seed") => Occurs(n, "cards.find") = 1
    /\ (countRead[n] = 0 /\ pc[n] \notin {"seed", "create"}) =>
         \/ Occurs(n, "decks.create") = 1
         \/ /\ pc[n] = "failed"
            /\ trace[n][Len(trace[n]) - 1] = "cards.find"

\* Both cases of C1 in one run: one instance read zero and called
\* decks.create, the other read a non-zero count and has ended.
C1_Witness ==
  \E n, m \in Nodes :
    /\ countRead[n] = 0 /\ Occurs(n, "decks.create") = 1 /\ pc[n] = "done"
    /\ countRead[m] > 0 /\ pc[m] = "done"

\* C2: the params seedDb passes to decks.create hold in blackCards the ids
\* of exactly the cards whose cardType is "black" and in whiteCards the ids
\* of all the others (a missing cardType included), each in source order,
\* and every card id is in exactly one of the two lists.
C2_PartitionByCardType ==
  \A n \in Nodes : \A k \in 1..Len(seedArg[n]) :
    LET arg == seedArg[n][k]
        cards == fetched[n]
    IN /\ arg.blackCards = IdsOf(SelectSeq(cards, IsBlack))
       /\ arg.whiteCards = IdsOf(SelectSeq(cards, IsNotBlack))
       /\ Range(arg.blackCards) \cap Range(arg.whiteCards) = {}
       /\ Range(arg.blackCards) \cup Range(arg.whiteCards)
            = Range(IdsOf(cards))
       /\ Len(arg.blackCards) + Len(arg.whiteCards) = Len(cards)

\* A mixed card set whose ids are not in increasing order: two black cards
\* and a card without cardType, partitioned and passed to decks.create.
C2_Witness ==
  \E n \in Nodes :
    /\ Len(seedArg[n]) = 1
    /\ Len(seedArg[n][1].blackCards) = 2
    /\ seedArg[n][1].blackCards[1] > seedArg[n][1].blackCards[2]
    /\ \E i \in 1..Len(fetched[n]) :
         /\ fetched[n][i].cardType = "none"
         /\ fetched[n][i].id \in Range(seedArg[n][1].whiteCards)

\* C3 as stated: when the count read was zero the workflow issues exactly
\* one decks.create call, for a deck named "Base cards".
C3_AsStated ==
  \A n \in Nodes :
    (Terminated(n) /\ countRead[n] = 0) =>
      /\ Len(seedArg[n]) = 1
      /\ seedArg[n][1].name = "Base cards"

\* C3 amended: seeding never issues more than one decks.create call, and
\* once cards.find has returned it issues exactly one, for a deck named
\* "Base cards"; an empty card set gives a deck with both lists empty.
C3_OneBaseCardsDeck ==
  \A n \in Nodes :
    /\ Len(seedArg[n]) <= 1
    /\ \A k \in 1..Len(seedArg[n]) : seedArg[n][k].name = "Base cards"
    /\ (Occurs(n, "cards.find") = 1 /\ pc[n] \notin {"create", "failed"}) =>
         Len(seedArg[n]) = 1
    /\ (pc[n] = "failed" /\ Occurs(n, "decks.create") = 1) =>
         Len(seedArg[n]) = 1
    /\ (Len(seedArg[n]) = 1 /\ fetched[n] = <<>>) =>
         /\ seedArg[n][1].whiteCards = <<>>
         /\ seedArg[n][1].blackCards = <<>>
    /\ \A k \in 1..Len(seeded[n]) :
         /\ seeded[n][k].name = seedArg[n][k].name
         /\ seeded[n][k].whiteCards = seedArg[n][k].whiteCards
         /\ seeded[n][k].blackCards = seedArg[n][k].blackCards

\* Seeding ran on an empty card set and created the empty "Base cards" deck.
C3_Witness ==
  \E n \in Nodes :
    /\ cardsDb = <<>>
    /\ countRead[n] = 0
    /\ pc[n] = "done"
    /\ Len(seeded[n]) = 1
    /\ seeded[n][1].name = "Base cards"
    /\ seeded[n][1].whiteCards = <<>>
    /\ seeded[n][1].blackCards = <<>>

\* The event each kind of mutation is to be announced by.
EventNameOf(kind) ==
  CASE kind = "create" -> "decks.created"
    [] kind = "update" -> "decks.updated"
    [] kind = "remove" -> "decks.removed"

\* C4: the published events are, one for one and in order, the completed
\* mutations of the deck store: each mutation is announced by exactly one
\* event of its own kind whose payload is the affected record, the create
\* issued by seeding included, and there is no event without a mutation.
C4_OneEventPerMutation ==
  /\ Len(events) = Len(mutations)
  /\ \A i \in 1..Len(mutations) :
       /\ events[i].name = EventNameOf(mutations[i][1])
       /\ events[i].payload = mutations[i][2]
  /\ \A n \in Nodes : \A k \in 1..Len(seeded[n]) :
       Cardinality({ i \in 1..Len(events) :
                       events[i] = [name |-> "decks.created",
                                    payload |-> seeded[n][k]] }) = 1

\* A seed deck was created, then renamed and removed: all three kinds of
\* event have been published.
C4_Witness ==
  /\ \E n \in Nodes : Len(seeded[n]) = 1
  /\ { events[i].name : i \in 1..Len(events) }
       = {"decks.created", "decks.updated", "decks.removed"}

\* C5 as stated: a workflow that has run to its end has broadcast
\* cache.clean.decks once and purged the cache once.
C5_AsStated ==
  \A n \in Nodes :
    pc[n] = "done" =>
      /\ Occurs(n, "cache.clean.decks") = 1
      /\ Occurs(n, "cacher.clean") = 1

C5_Counts ==
  \A n \in Nodes :
    /\ Occurs(n, "cache.clean.decks") <= 1
    /\ Occurs(n, "cacher.clean") <= 1
    /\ Occurs(n, "cacher.clean") = 1 => Occurs(n, "cache.clean.decks") = 1
    /\ pc[n] = "done" =>
         /\ Occurs(n, "cache.clean.decks") = 1
         /\ Occurs(n, "cacher.clean") = (IF cacher THEN 1 ELSE 0)

\* C5 amended: once the seed deck is created or seeding is skipped, the
\* workflow eventually broadcasts cache.clean.decks, exactly once, and then
\* purges the cache exactly once when the broker has a cacher, and not at
\* all when it has none.
C5_CacheCleanAfterSeeding ==
  /\ []C5_Counts
  /\ \A n \in Nodes : (pc[n] = "broadcast") ~> (pc[n] = "done")

\* Both cases of C5 have run to the end: one instance seeded, one skipped.
C5_Witness ==
  \E n, m \in Nodes :
    /\ pc[n] = "done" /\ Len(seeded[n]) = 1
    /\ pc[m] = "done" /\ countRead[m] > 0 /\ seeded[m] = <<>>

WorkflowSteps ==
  {"delay", "waitForServices", "count", "cards.find", "decks.create",
   "cache.clean.decks", "cacher.clean", "rejected"}

\* C6: in one process the workflow is run once: no step of it happens a
\* second time, an instance that has not been connected has done nothing,
\* and seeding creates at most one deck per process.
C6_SingleSeedingTask ==
  \A n \in Nodes :
    /\ \A step \in WorkflowSteps : Occurs(n, step) <= 1
    /\ Len(seeded[n]) <= 1
    /\ Len(seedArg[n]) <= 1
    /\ pc[n] \in {"init", "delay"} => trace[n] = <<>>

\* An instance ran its workflow to the end and seeded one deck.
C6_Witness ==
  \E n \in Nodes :
    /\ pc[n] = "done"
    /\ Len(seeded[n]) = 1
    /\ Occurs(n, "delay") = 1

\* C7: nothing keeps an instance that read a zero count from creating its
\* deck: its decks.create is enabled whatever the store holds by then, and
\* every instance whose create completed has inserted a "Base cards" record
\* of its own, distinct from every other instance's.
C7_NoSeedExclusion ==
  \A n \in Nodes :
    /\ pc[n] = "create" => ENABLED SeedCreate(n)
    /\ (countRead[n] = 0 /\ pc[n] \in {"broadcast", "clean", "done"}) =>
         /\ Len(seeded[n]) = 1
         /\ seeded[n][1].name = "Base cards"
         /\ <<"create", seeded[n][1]>> \in Range(mutations)
         /\ \A m \in Nodes \ {n} :
              seeded[m] # <<>> => seeded[m][1].id # seeded[n][1].id

\* Two instances both read zero and the store holds two "Base cards" decks.
C7_Witness ==
  \E n, m \in Nodes :
    /\ n # m
    /\ countRead[n] = 0 /\ countRead[m] = 0
    /\ Len(seeded[n]) = 1 /\ Len(seeded[m]) = 1
    /\ seeded[n][1] \in store /\ seeded[m][1] \in store
    /\ Cardinality({ d \in store : d.name = "Base cards" }) > 1

\* C8: as long as the "cards" service has not become available, no
\* workflow is past the dependency wait: none has read the count, called
\* cards.find or decks.create, or broadcast; and a started instance still
\* serves health and the create / update / remove requests.
C8_SuspendedWhileCardsDown ==
  ~cardsUp =>
    \A n \in Nodes :
      /\ pc[n] \in {"init", "delay", "wait"}
      /\ ~HasCounted(n)
      /\ \A step \in WorkflowSteps \ {"delay"} : Occurs(n, step) = 0
      /\ Serving(n) =>
           /\ lastHealth = "none" => ENABLED Health(n)
           /\ requests < MaxRequests => ENABLED CreateRequest(n)
           /\ (requests < MaxRequests /\ store # {}) =>
                (ENABLED UpdateRequest(n) /\ ENABLED RemoveRequest(n))

\* Every workflow is suspended at the dependency wait while requests have
\* been served: health replied, a deck was created and then changed.
C8_Witness ==
  /\ ~cardsUp
  /\ \A n \in Nodes : pc[n] = "wait"
  /\ lastHealth \in NodeHealth
  /\ Len(events) >= 2
  /\ events[1].name = "decks.created"

C9_Rejected ==
  \A n \in Nodes :
    /\ pc[n] = "failed" <=> Occurs(n, "rejected") > 0
    /\ pc[n] = "failed" =>
         LET len == Len(trace[n])
             call == trace[n][len - 1]
         IN /\ trace[n][len] = "rejected"
            /\ Occurs(n, "rejected") = 1
            /\ call \in {"cards.find", "decks.create"}
            /\ Occurs(n, call) = 1
            /\ Occurs(n, "cache.clean.decks") = 0
            /\ Occurs(n, "cacher.clean") = 0
            /\ seeded[n] = <<>>
            /\ call = "cards.find" =>
                 (Occurs(n, "decks.create") = 0 /\ seedArg[n] = <<>>)

C9_Step ==
  \A n \in Nodes :
    /\ pc[n] = "failed" => (pc'[n] = "failed" /\ trace'[n] = trace[n])
    /\ (pc[n] = "seed" /\ pc'[n] = "failed") =>
         (store' = store /\ mutations' = mutations /\ events' = events)

\* C9: a rejected cards.find or decks.create ends the seeding task: the
\* rejection is the task's last step, the call is not made again, no create
\* follows a rejected cards.find, neither the broadcast nor the purge is
\* performed, and a rejected cards.find leaves the deck store unchanged.
C9_FailureEndsTask ==
  /\ []C9_Rejected
  /\ [][C9_Step]_vars

\* One instance's cards.find was rejected, the other's decks.create.
C9_Witness ==
  \E n, m \in Nodes :
    /\ pc[n] = "failed" /\ Occurs(n, "cards.find") = 1
    /\ Occurs(n, "decks.create") = 0
    /\ pc[m] = "failed" /\ Occurs(m, "decks.create") = 1

SeedOrder ==
  <<"delay", "waitForServices", "count", "cards.find", "decks.create",
    "cache.clean.decks", "cacher.clean">>

SkipOrder ==
  <<"delay", "waitForServices", "count", "cache.clean.decks", "cacher.clean">>

IsStep(step) == step # "rejected"

\* C10: the steps of a workflow are an initial segment of: delay, wait for
\* the cards service, count, then (after a zero count) cards.find and
\* decks.create, then the broadcast, then the purge.  The count is read
\* only once the cards service is available, and after a zero count the
\* broadcast and the purge follow the completed seed create.
C10_StepOrder ==
  \A n \in Nodes :
    LET steps == SelectSeq(trace[n], IsStep)
    IN /\ IsPrefix(steps, SeedOrder) \/ IsPrefix(steps, SkipOrder)
       /\ countRead[n] = 0 => IsPrefix(steps, SeedOrder)
       /\ countRead[n] > 0 => IsPrefix(steps, SkipOrder)
       /\ HasCounted(n) => (cardsUp /\ Occurs(n, "waitForServices") = 1)
       /\ (countRead[n] = 0 /\ Occurs(n, "cache.clean.decks") > 0) =>
            /\ Len(seeded[n]) = 1
            /\ <<"create", seeded[n][1]>> \in Range(mutations)

\* Both orders in full: one instance seeded and purged, one skipped seeding.
C10_Witness ==
  \E n, m \in Nodes :
    /\ SelectSeq(trace[n], IsStep) = SeedOrder
    /\ SelectSeq(trace[m], IsStep) = SkipOrder

====
